---- MODULE Spec2Model ----
(***************************************************************************)
(* The Todo List application of the comparison, in its two variants:       *)
(*   - React: App holds the collection in useState; toggleTodo and addTodo *)
(*     build a new array and hand it to setTodos;                          *)
(*   - Svelte: the collection lives in a writable store; AddTodoForm       *)
(*     assigns a new array to the store, TodoList binds each checkbox to   *)
(*     todo.complete (the record is written in place and the store is set  *)
(*     to the same array).                                                 *)
(* Records are objects with identity: heap[id] is the object, todos is the *)
(* array of object ids, ref is the identity of the array itself.           *)
(***************************************************************************)
EXTENDS Integers, Sequences, FiniteSets, TLC

\* Number of state-changing operations (add, toggle) of a run.
MaxOps == 2
\* Number of subscriptions made to the store during a run.
MaxObservers == 2

\* Texts typed into the form's input; '' is the input's initial value.
Texts == {"", "Test Store Todo"}

Frameworks == {"react", "svelte"}

VARIABLES
    framework,    \* which of the two applications runs
    heap,         \* the record objects, by id: [text, complete]
    todos,        \* the current array: a sequence of object ids
    ref,          \* identity of the current array (arrays allocated so far)
    text,         \* AddTodoForm's input text
    subscribers,  \* the store's subscribers, in insertion order
    calls,        \* history: every invocation of a subscriber
    regAt,        \* history: number of operations done when an observer subscribed
    opLog         \* history: every add and toggle, with the collection before and after

vars == <<framework, heap, todos, ref, text, subscribers, calls, regAt, opLog>>

Observers == 1..MaxObservers

\* The collection by value: what todos.map / get(store) let a reader see.
Contents(ts, h) == [i \in 1..Len(ts) |-> h[ts[i]]]

\* The seeds the collection starts from (empty, or one record).
initialTodos ==
    { <<>>, <<[text |-> "Test Store Todo", complete |-> FALSE]>> }

nops == Len(opLog)

----------------------------------------------------------------------------
(* React: App.tsx *)

\* Number of elements of ts[1..i] that are the object sel.
Hits(ts, sel, i) == Cardinality({j \in 1..i : ts[j] = sel})

toggleTodoByValue(ts, h, r, selectedTodo) ==
    LET same(j) == h[ts[j]] = h[selectedTodo]
        n(i) == Cardinality({j \in 1..i : same(j)})
    IN  [todos |-> [i \in 1..Len(ts) |->
                        IF same(i) THEN Len(h) + n(i) ELSE ts[i]],
         heap  |-> h \o [k \in 1..n(Len(ts)) |->
                        [text     |-> h[selectedTodo].text,
                         complete |-> ~h[selectedTodo].complete]],
         ref   |-> r + 1]

toggleTodoSetTrue(ts, h, r, selectedTodo) ==
    [todos |-> [i \in 1..Len(ts) |->
                    IF ts[i] = selectedTodo
                    THEN Len(h) + Hits(ts, selectedTodo, i) ELSE ts[i]],
     heap  |-> h \o [k \in 1..Hits(ts, selectedTodo, Len(ts)) |->
                    [text |-> h[selectedTodo].text, complete |-> TRUE]],
     ref   |-> r + 1]

toggleTodoKeepArray(ts, h, r, selectedTodo) ==
    [todos |-> [i \in 1..Len(ts) |->
                    IF ts[i] = selectedTodo
                    THEN Len(h) + Hits(ts, selectedTodo, i) ELSE ts[i]],
     heap  |-> h \o [k \in 1..Hits(ts, selectedTodo, Len(ts)) |->
                    [text     |-> h[selectedTodo].text,
                     complete |-> ~h[selectedTodo].complete]],
     ref   |-> IF Hits(ts, selectedTodo, Len(ts)) = 0 THEN r ELSE r + 1]

\* toggleTodo: todos.map gives a new array; the element that IS selectedTodo
\* (===) is replaced by a new object {...todo, complete: !todo.complete},
\* every other element is kept as the same object; setTodos(newTodos).
toggleTodo(ts, h, r, selectedTodo) ==
    [todos |-> [i \in 1..Len(ts) |->
                    IF ts[i] = selectedTodo
                    THEN Len(h) + Hits(ts, selectedTodo, i) ELSE ts[i]],
     heap  |-> h \o [k \in 1..Hits(ts, selectedTodo, Len(ts)) |->
                    [text     |-> h[selectedTodo].text,
                     complete |-> ~h[selectedTodo].complete]],
     ref   |-> r + 1]

addTodoPrepend(ts, h, r, t) ==
    [todos |-> <<Len(h) + 1>> \o ts,
     heap  |-> Append(h, [text |-> t, complete |-> FALSE]),
     ref   |-> r + 1]

addTodoComplete(ts, h, r, t) ==
    [todos |-> Append(ts, Len(h) + 1),
     heap  |-> Append(h, [text |-> t, complete |-> (Len(ts) > 0)]),
     ref   |-> r + 1]

addTodoNonEmpty(ts, h, r, t) ==
    IF t = ""
    THEN [todos |-> ts, heap |-> h, ref |-> r]
    ELSE [todos |-> Append(ts, Len(h) + 1),
          heap  |-> Append(h, [text |-> t, complete |-> FALSE]),
          ref   |-> r + 1]

\* addTodo: newTodo = {text, complete: false}; setTodos([...todos, newTodo]).
\* The Svelte form's handler builds the same array for the store.
addTodo(ts, h, r, t) ==
    [todos |-> Append(ts, Len(h) + 1),
     heap  |-> Append(h, [text |-> t, complete |-> FALSE]),
     ref   |-> r + 1]

----------------------------------------------------------------------------
(* Svelte: TodoList.svelte, todoListStore.ts *)

\* bind:checked={todo.complete} in the each block: the change handler writes
\* the checkbox's state into the i-th record in place and sets the store to
\* the array it already holds.
bindChecked(ts, h, r, i, checked) ==
    [todos |-> ts,
     heap  |-> [h EXCEPT ![ts[i]].complete = checked],
     ref   |-> r]

clickedChecked(ts, h, i) == TRUE

\* The state of the i-th checkbox after a click: the box shows todo.complete
\* and the click flips it.
clicked(ts, h, i) == ~h[ts[i]].complete

strict_not_equal(a, b) == a # b

\* The store's change test: two objects (arrays) always count as changed,
\* also when they are the same array.
safe_not_equal(a, b) == (a # b) \/ TRUE

runReversed(subs, value, op) ==
    [k \in 1..Len(subs) |->
        [obs |-> subs[Len(subs) + 1 - k], value |-> value,
         trigger |-> "set", op |-> op]]

\* The store runs every subscriber, in insertion order, with the value.
run(subs, value, op) ==
    [k \in 1..Len(subs) |->
        [obs |-> subs[k], value |-> value, trigger |-> "set", op |-> op]]

setStale(subs, old, new, op) ==
    IF safe_not_equal(old.ref, new.ref)
    THEN run(subs, old.value, op)
    ELSE <<>>

\* writable's set(new_value): when the value counts as changed it is stored
\* and the subscribers are run with it. old is the value the store holds,
\* new the one it is given; the result is the invocations made.
set(subs, old, new, op) ==
    IF safe_not_equal(old.ref, new.ref)
    THEN run(subs, new.value, op)
    ELSE <<>>

\* writable's subscribe(run): the subscriber is added and run at once with
\* the current value (this is how get(store) reads the store).
subscribe(o, value, op) ==
    <<[obs |-> o, value |-> value, trigger |-> "subscribe", op |-> op]>>

----------------------------------------------------------------------------

\* What the store holds, as the array's identity and its value.
Held(ts, h, r) == [ref |-> r, value |-> Contents(ts, h)]

\* History of invocations: each is recorded with what the container holds
\* while the subscriber runs.
Stamp(invocations, stored) ==
    [k \in 1..Len(invocations) |->
        [obs |-> invocations[k].obs, value |-> invocations[k].value,
         trigger |-> invocations[k].trigger, op |-> invocations[k].op,
         stored |-> stored]]

\* History of operations: the collection and the array's identity before and
\* after the step, the subscribers at the time, the span of calls it made.
Entry(kind, t, sel, pos) ==
    [kind |-> kind, text |-> t, sel |-> sel, pos |-> pos,
     before |-> Contents(todos, heap), after |-> Contents(todos', heap'),
     refBefore |-> ref, refAfter |-> ref',
     subs |-> subscribers,
     callsBefore |-> Len(calls), callsAfter |-> Len(calls')]

\* Positions of the array ts that hold the object sel.
Positions(ts, sel) == {i \in 1..Len(ts) : ts[i] = sel}

Pos(ts, sel) == IF Positions(ts, sel) = {} THEN 0
                ELSE CHOOSE i \in Positions(ts, sel) :
                        \A j \in Positions(ts, sel) : i <= j

Init ==
    /\ framework \in Frameworks
    /\ heap \in initialTodos
    /\ todos = [i \in 1..Len(heap) |-> i]
    /\ ref = 1
    /\ text = ""
    /\ subscribers = <<>>
    /\ calls = <<>>
    /\ regAt = [o \in Observers |-> -1]
    /\ opLog = <<>>

\* The input's onChange / bind:value.
ChangeText(t) ==
    /\ text' = t
    /\ UNCHANGED <<framework, heap, todos, ref, subscribers, calls, regAt, opLog>>

\* React AddTodoForm's button: addTodo(text); setText('').
ReactClickAdd ==
    /\ framework = "react"
    /\ nops < MaxOps
    /\ LET new == addTodo(todos, heap, ref, text)
       IN  /\ todos' = new.todos
           /\ heap' = new.heap
           /\ ref' = new.ref
    /\ text' = ""
    /\ UNCHANGED <<framework, subscribers, calls, regAt>>
    /\ opLog' = Append(opLog, Entry("add", text, 0, 0))

\* React TodoList's checkbox: toggleTodo(todo). selectedTodo is any record
\* object made so far, in the current array or not.
ReactToggle(selectedTodo) ==
    /\ framework = "react"
    /\ nops < MaxOps
    /\ LET new == toggleTodo(todos, heap, ref, selectedTodo)
       IN  /\ todos' = new.todos
           /\ heap' = new.heap
           /\ ref' = new.ref
    /\ UNCHANGED <<framework, text, subscribers, calls, regAt>>
    /\ opLog' = Append(opLog,
                    Entry("toggle", "", selectedTodo, Pos(todos, selectedTodo)))

\* Svelte AddTodoForm's button:
\* $todoListStore = [...$todoListStore, {text, complete: false}]; text = ''.
SvelteClickAdd ==
    /\ framework = "svelte"
    /\ nops < MaxOps
    /\ LET new == addTodo(todos, heap, ref, text)
       IN  /\ todos' = new.todos
           /\ heap' = new.heap
           /\ ref' = new.ref
           /\ calls' = calls \o
                  Stamp(set(subscribers, Held(todos, heap, ref),
                            Held(new.todos, new.heap, new.ref), nops + 1),
                        Contents(todos', heap'))
    /\ text' = ""
    /\ UNCHANGED <<framework, subscribers, regAt>>
    /\ opLog' = Append(opLog, Entry("add", text, 0, 0))

\* Svelte TodoList's i-th checkbox.
SvelteToggle(i) ==
    /\ framework = "svelte"
    /\ nops < MaxOps
    /\ i \in 1..Len(todos)
    /\ LET new == bindChecked(todos, heap, ref, i, clicked(todos, heap, i))
       IN  /\ todos' = new.todos
           /\ heap' = new.heap
           /\ ref' = new.ref
           /\ calls' = calls \o
                  Stamp(set(subscribers, Held(todos, heap, ref),
                            Held(new.todos, new.heap, new.ref), nops + 1),
                        Contents(todos', heap'))
    /\ UNCHANGED <<framework, text, subscribers, regAt>>
    /\ opLog' = Append(opLog, Entry("toggle", "", todos[i], i))

\* An observer subscribes to the store ($todoListStore in a component).
Subscribe(o) ==
    /\ framework = "svelte"
    /\ regAt[o] = -1
    /\ subscribers' = Append(subscribers, o)
    /\ UNCHANGED <<framework, heap, todos, ref, text, opLog>>
    /\ calls' = calls \o Stamp(subscribe(o, Contents(todos, heap), nops),
                               Contents(todos', heap'))
    /\ regAt' = [regAt EXCEPT ![o] = nops]

\* The function subscribe returned: the subscriber is deleted.
Unsubscribe(o) ==
    /\ framework = "svelte"
    /\ \E k \in 1..Len(subscribers) : subscribers[k] = o
    /\ subscribers' = SelectSeq(subscribers, LAMBDA x : x # o)
    /\ UNCHANGED <<framework, heap, todos, ref, text, calls, regAt, opLog>>

Next ==
    \/ \E t \in Texts : ChangeText(t)
    \/ ReactClickAdd
    \/ \E s \in 1..Len(heap) : ReactToggle(s)
    \/ SvelteClickAdd
    \/ \E i \in 1..Len(todos) : SvelteToggle(i)
    \/ \E o \in Observers : Subscribe(o)
    \/ \E o \in Observers : Unsubscribe(o)

Spec == Init /\ [][Next]_vars

----------------------------------------------------------------------------
(* Properties *)

Current == Contents(todos, heap)

\* The collection the run started from.
Initial == IF nops = 0 THEN Current ELSE opLog[1].before

\* The value the container holds once k operations are done.
ValueAfter(k) == IF k = 0 THEN Initial ELSE opLog[k].after

Adds == SelectSeq(opLog, LAMBDA e : e.kind = "add")

IsHit(e) == e.kind = "toggle" /\ e.pos # 0

\* The invocations the k-th operation made.
Slice(k) == SubSeq(calls, opLog[k].callsBefore + 1, opLog[k].callsAfter)

CallsTo(o) == SelectSeq(calls, LAMBDA c : c.obs = o)

Active(o) == \E k \in 1..Len(subscribers) : subscribers[k] = o

\* C1: starting from the empty collection, the length of the collection is
\* the number of adds made and the records are the added ones, in the order
\* the adds were called (and exactly {text, complete: false} each while no
\* toggle has been made).
C1_AppendMonotonicity ==
    Initial = <<>> =>
        /\ Len(Current) = Len(Adds)
        /\ \A i \in 1..Len(Adds) : Current[i].text = Adds[i].text
        /\ (Len(Adds) = nops =>
               \A i \in 1..Len(Adds) :
                   Current[i] = [text |-> Adds[i].text, complete |-> FALSE])

C1_Witness ==
    /\ Initial = <<>>
    /\ nops = 2
    /\ Len(Adds) = 2
    /\ Adds[1].text = "Test Store Todo"
    /\ Adds[2].text = ""

\* C2: an add stores the collection it found followed by one new record
\* {text, complete: false}: every earlier record keeps its position, text and
\* complete value.
C2_AddAppends ==
    \A k \in 1..nops :
        opLog[k].kind = "add" =>
            /\ opLog[k].after =
                   Append(opLog[k].before,
                          [text |-> opLog[k].text, complete |-> FALSE])
            /\ (k = nops => Current = opLog[k].after)

C2_Witness ==
    \E k \in 1..nops :
        /\ opLog[k].kind = "add"
        /\ Len(opLog[k].before) = 1
        /\ opLog[k].before[1].complete
        /\ opLog[k].text # opLog[k].before[1].text

\* C3: a toggle of a record of the current collection stores a collection in
\* which that record's complete is the negation of what it was.
C3_ToggleNegates ==
    \A k \in 1..nops :
        IsHit(opLog[k]) =>
            /\ Len(opLog[k].after) = Len(opLog[k].before)
            /\ opLog[k].after[opLog[k].pos].complete =
                   ~opLog[k].before[opLog[k].pos].complete
            /\ (k = nops => Current = opLog[k].after)

\* An add on the empty collection, then a toggle of that record.
C3_Witness ==
    /\ Initial = <<>>
    /\ nops = 2
    /\ opLog[1].kind = "add"
    /\ opLog[1].after = <<[text |-> "Test Store Todo", complete |-> FALSE]>>
    /\ IsHit(opLog[2])
    /\ Current = <<[text |-> "Test Store Todo", complete |-> TRUE]>>

\* C4: two consecutive toggles of the same record of the collection leave its
\* complete value as it was before the first.
C4_DoubleToggle ==
    \A k \in 1..(nops - 1) :
        (/\ IsHit(opLog[k])
         /\ IsHit(opLog[k + 1])
         /\ opLog[k].pos = opLog[k + 1].pos) =>
            opLog[k + 1].after[opLog[k].pos].complete =
                opLog[k].before[opLog[k].pos].complete

C4_Witness ==
    \E k \in 1..(nops - 1) :
        /\ IsHit(opLog[k])
        /\ IsHit(opLog[k + 1])
        /\ opLog[k].pos = opLog[k + 1].pos
        /\ ~opLog[k].before[opLog[k].pos].complete
        /\ opLog[k].after[opLog[k].pos].complete
        /\ ~opLog[k + 1].after[opLog[k].pos].complete

\* C5: a toggle of one record changes neither the text nor the complete value
\* of any other record, also of one with the same text and complete value,
\* and keeps the length and the order of the collection.
C5_ToggleIsolation ==
    \A k \in 1..nops :
        IsHit(opLog[k]) =>
            /\ Len(opLog[k].after) = Len(opLog[k].before)
            /\ opLog[k].after[opLog[k].pos].text =
                   opLog[k].before[opLog[k].pos].text
            /\ \A j \in 1..Len(opLog[k].before) :
                   j # opLog[k].pos => opLog[k].after[j] = opLog[k].before[j]

C5_Witness ==
    \E k \in 1..nops :
        /\ IsHit(opLog[k])
        /\ \E j \in 1..Len(opLog[k].before) :
               /\ j # opLog[k].pos
               /\ opLog[k].before[j] = opLog[k].before[opLog[k].pos]

\* Every invocation is made with the value the container held once the
\* operation before it was done.
LatestValues(o) ==
    \A n \in 1..Len(CallsTo(o)) :
        /\ CallsTo(o)[n].op \in 0..nops
        /\ CallsTo(o)[n].value = ValueAfter(CallsTo(o)[n].op)

\* C6 as stated: an observer registered before M operations has been invoked
\* exactly M times, each time with the latest value.
C6_FanOutAsStated ==
    framework = "svelte" =>
        \A o \in Observers :
            Active(o) =>
                /\ Len(CallsTo(o)) = nops - regAt[o]
                /\ LatestValues(o)

\* C6, amended: an observer registered before M operations has been invoked
\* once on registering, with the value held then, and exactly once by each of
\* the M operations, with the value that operation stored.
C6_FanOut ==
    framework = "svelte" =>
        \A o \in Observers :
            Active(o) =>
                /\ Len(CallsTo(o)) = 1 + (nops - regAt[o])
                /\ CallsTo(o)[1].trigger = "subscribe"
                /\ CallsTo(o)[1].op = regAt[o]
                /\ \A n \in 2..Len(CallsTo(o)) :
                       /\ CallsTo(o)[n].trigger = "set"
                       /\ CallsTo(o)[n].op = regAt[o] + n - 1
                /\ LatestValues(o)

\* Two observers registered before two operations, one of them a toggle.
C6_Witness ==
    /\ framework = "svelte"
    /\ \A o \in {1, 2} : Active(o) /\ nops - regAt[o] >= 2
    /\ \E k \in 1..nops : IsHit(opLog[k])

\* C7: each add and each toggle replaces the array (React) or runs every
\* subscriber exactly once (Svelte), and what a subscriber is handed is what
\* the container holds while it runs.
C7_OncePerEdit ==
    /\ \A k \in 1..nops :
           /\ framework = "react" => opLog[k].refAfter = opLog[k].refBefore + 1
           /\ framework = "svelte" =>
                  /\ opLog[k].refAfter \in
                         {opLog[k].refBefore, opLog[k].refBefore + 1}
                  /\ \A o \in Observers :
                         Len(SelectSeq(Slice(k), LAMBDA c : c.obs = o)) =
                             IF \E n \in 1..Len(opLog[k].subs) :
                                    opLog[k].subs[n] = o
                             THEN 1 ELSE 0
    /\ \A n \in 1..Len(calls) : calls[n].value = calls[n].stored

\* A toggle in the Svelte application, with two subscribers, that kept the
\* array and changed a record.
C7_Witness ==
    \E k \in 1..nops :
        /\ framework = "svelte"
        /\ IsHit(opLog[k])
        /\ Len(opLog[k].subs) = 2
        /\ opLog[k].refAfter = opLog[k].refBefore
        /\ opLog[k].after # opLog[k].before
        /\ Len(Slice(k)) = 2

\* C8: the subscribers are run within the operation, in the order they
\* registered, once for every operation: the invocations of the k-th
\* operation are made before the next one starts, and none is saved up or
\* dropped, also when the array set is the one already held.
C8_NotificationOrder ==
    framework = "svelte" =>
        /\ \A k \in 1..nops :
               /\ [n \in 1..Len(Slice(k)) |-> Slice(k)[n].obs] = opLog[k].subs
               /\ \A n \in 1..Len(Slice(k)) :
                      Slice(k)[n].trigger = "set" /\ Slice(k)[n].op = k
               /\ opLog[k].callsAfter <=
                      (IF k < nops THEN opLog[k + 1].callsBefore ELSE Len(calls))
        /\ \A n \in 1..Len(calls) :
               calls[n].trigger = "set" =>
                   /\ calls[n].op \in 1..nops
                   /\ n > opLog[calls[n].op].callsBefore
                   /\ n <= opLog[calls[n].op].callsAfter

\* Observer 2 registered before observer 1; an add and then a toggle.
C8_Witness ==
    /\ framework = "svelte"
    /\ \E k \in 1..(nops - 1) :
           /\ opLog[k].subs = <<2, 1>>
           /\ opLog[k + 1].subs = <<2, 1>>
           /\ opLog[k].kind = "add"
           /\ IsHit(opLog[k + 1])

\* C9: an add of the empty string is not refused: it appends the record
\* {text: '', complete: false} like any other add, and (Svelte) every
\* subscriber is run.
C9_EmptyTextAdded ==
    \A k \in 1..nops :
        (opLog[k].kind = "add" /\ opLog[k].text = "") =>
            /\ Len(opLog[k].after) = Len(opLog[k].before) + 1
            /\ opLog[k].after[Len(opLog[k].after)] =
                   [text |-> "", complete |-> FALSE]
            /\ opLog[k].refAfter # opLog[k].refBefore
            /\ Len(Slice(k)) = Len(opLog[k].subs)

C9_Witness ==
    \E k \in 1..nops :
        /\ opLog[k].kind = "add"
        /\ opLog[k].text = ""
        /\ Len(opLog[k].subs) = 2
        /\ Len(opLog[k].before) = 1

\* C10: (React) a toggle given an object that is not in the current array
\* changes no record and keeps length and order, and the array is still
\* replaced by a new one of the same value.
C10_StaleToggle ==
    \A k \in 1..nops :
        (framework = "react" /\ opLog[k].kind = "toggle" /\ opLog[k].pos = 0) =>
            /\ opLog[k].after = opLog[k].before
            /\ opLog[k].refAfter # opLog[k].refBefore

\* The object a toggle replaced is given to toggle again.
C10_Witness ==
    \E k \in 1..(nops - 1) :
        /\ framework = "react"
        /\ IsHit(opLog[k])
        /\ opLog[k + 1].kind = "toggle"
        /\ opLog[k + 1].pos = 0
        /\ opLog[k + 1].sel = opLog[k].sel

====
